---- MODULE Spec2Model ----
(***************************************************************************)
(* State-machine model of the cinestream list view (src/src/pages/Home.jsx) *)
(* with its debounce hook (src/src/hooks/useDebounce.js) and API layer      *)
(* (src/src/api/api.js).                                                    *)
(*                                                                          *)
(* One action is one browser task: the event (mount, keystroke, timer       *)
(* expiry, scroll event, promise settlement) followed by the React renders  *)
(* and effect runs it causes, up to the render in which no effect changes   *)
(* state any more.  Effects of one commit read the values of the render     *)
(* they were created in (their closures) and queue their state updates for  *)
(* the next render.  Strings are sequences of characters.  The model is of  *)
(* the production build: the development-only second mount of StrictMode    *)
(* (src/src/main.jsx) is not part of it.                                    *)
(*                                                                          *)
(* Spec is the list view.  SpecDebounce is the hook alone with a clock.     *)
(* SpecShell is the application shell around the list view: ConfigProvider, *)
(* the routes of App.jsx, MovieDetails and its TMDBImage.                   *)
(***************************************************************************)
EXTENDS Integers, Sequences, FiniteSets, Bags, TLC

VARIABLES
    mounted,         \* Home has been mounted (its first commit has run)
    apiKey,          \* API_KEY is present (api.js:2), fixed for the process
    movies,          \* Home state `movies`
    searchQuery,     \* Home state `searchQuery`
    page,            \* Home state `page`
    loading,         \* Home state `loading`
    debouncedValue,  \* useDebounce state `debouncedValue` (= debouncedSearch)
    timer,           \* the pending setTimeout of useDebounce, or NoTimer
    inflight,        \* bag of the fetchMovies calls awaiting their response
    issued,          \* fetchMovies calls made so far (history, bounds the exploration)
    keys,            \* keystrokes so far (history, bounds the exploration)
    dropped,         \* proximity signals ignored in a row just before now; after a
                     \* settlement, the length of a full burst ignored just before
                     \* it, else 0 (history)
    last,            \* the event of the last step and what it dispatched (history)
    now,             \* the clock of the timed view of useDebounce, in ms
    timers,          \* the pending setTimeout calls of useDebounce in the timed view
    burst,           \* the current run of inputs less than Delay apart (history)
    torn,            \* when the owner of useDebounce was unmounted, -1 before that
    started,         \* createRoot(...).render(...) has run (main.jsx)
    images,          \* ConfigProvider state `images`
    configCalls,     \* number of fetchConfig calls awaiting their response
    route,           \* the route shown: 0 is "/", i > 0 is "/i"
    instance,        \* number of MovieDetails instances mounted so far
    movie,           \* MovieDetails state `movie`
    detailCalls,     \* bag of the fetchMovie calls awaiting their response
    loaded,          \* TMDBImage state `loaded`
    imageMounts,     \* number of TMDBImage instances mounted so far (history)
    wire,            \* bag of the endpoints requested over HTTP so far (history)
    element          \* the props and the output of the last render of TMDBImage

vars == <<mounted, apiKey, movies, searchQuery, page, loading, debouncedValue,
          timer, inflight, issued, keys, dropped, last, now, timers, burst, torn,
          started, images, configCalls, route, instance, movie, detailCalls,
          loaded, imageMounts, wire, element>>

\* the state of the application shell: ConfigProvider, the router, MovieDetails
\* and its TMDBImage
shellVars == <<started, images, configCalls, route, instance, movie, detailCalls,
               loaded, imageMounts, wire, element>>

\* the state of the timed view of useDebounce beyond the hook's own state
clockVars == <<now, timers, burst, torn>>

progVars == <<mounted, apiKey, movies, searchQuery, page, loading, debouncedValue,
              timer, inflight>>

----------------------------------------------------------------------------
(* Bounds of the model *)

MaxFetches == 5     \* at most this many fetchMovies calls are made
MaxKeys == 2        \* the user changes the search box at most this often
MaxSignals == 3     \* ignored proximity signals counted up to this number

----------------------------------------------------------------------------
(* Values *)

EmptyStr == << >>

\* the texts the user can have in the search box
Terms == { EmptyStr, <<" ">>, <<"a">> }

NoTimer == [armed |-> FALSE, value |-> EmptyStr]

\* useState(null) of ConfigProvider and of MovieDetails
NoImages == [resolved |-> FALSE]

NoMovie == [id |-> 0, poster_path |-> EmptyStr, error |-> FALSE]

\* `return null` of a component: nothing is rendered
Null == [null |-> TRUE]

\* no TMDBImage is mounted
NoElement == [path |-> EmptyStr, type |-> "poster", rendered |-> FALSE, out |-> Null]

\* no input has been made yet
NoBurst == [len |-> 0, lastAt |-> 0, before |-> EmptyStr, changes |-> 0, fires |-> 0,
            firedAt |-> 0]

\* JavaScript truthiness of a string: only "" is falsy
Truthy(s) == Len(s) > 0

----------------------------------------------------------------------------
(* api.js *)

\* getTrendingMovies(page): the endpoint and parameters handed to fetchFromTMDB
GetTrendingMovies(pg) ==
    [endpoint |-> "trending", query |-> EmptyStr, page |-> pg]

\* (mutant) the page parameter is not passed on: the remote API answers page 1
SearchMoviesNoPage(q, pg) ==
    [endpoint |-> "search", query |-> q, page |-> 1]

\* searchMovies(query, page)
SearchMovies(q, pg) ==
    [endpoint |-> "search", query |-> q, page |-> pg]

NoCall == [endpoint |-> "none", query |-> EmptyStr, page |-> 0]

\* what the remote API can answer to a request that reaches it
Responses == {"ok", "empty", "noresults", "http", "network", "json"}

\* the page of records the remote API holds for a call: one record per page
Batch(call) == << [q |-> call.query, p |-> call.page] >>

NoData == [hasResults |-> FALSE, results |-> << >>]

\* fetchFromTMDB: throws when the key is missing, on a network error, on a
\* non-success status and on an unparsable body; otherwise returns the body
FetchFromTMDB(call, resp) ==
    IF ~apiKey THEN [threw |-> TRUE, data |-> NoData]
    ELSE IF resp \in {"network", "http", "json"} THEN [threw |-> TRUE, data |-> NoData]
    ELSE [threw |-> FALSE,
          data  |-> [hasResults |-> resp # "noresults",
                     results    |-> IF resp = "ok" THEN Batch(call) ELSE << >>]]

----------------------------------------------------------------------------
(* Home.jsx: the pieces of the component *)

\* the values one render of Home sees; effects created in it close over them
Snapshot(mv, pg, ld, dv) ==
    [movies |-> mv, page |-> pg, loading |-> ld, debounced |-> dv]

\* (mutant) the trending branch is lost: every fetch is a search
CallForAlwaysSearch(term, pg) == SearchMovies(term, pg)

\* fetchMovies, the choice of remote call:
\*   debouncedSearch ? searchMovies(debouncedSearch, page) : getTrendingMovies(page)
CallFor(term, pg) ==
    IF Truthy(term) THEN SearchMovies(term, pg) ELSE GetTrendingMovies(pg)

\* a fetchMovies call suspended at its await: the term and page its closure
\* holds, and the remote call it made
NewFetch(term, pg) == [term |-> term, page |-> pg, call |-> CallFor(term, pg)]

NoReq == [term |-> EmptyStr, page |-> 0, call |-> NoCall]

\* data.results || []
ResultsOf(data) == IF data.hasResults THEN data.results ELSE << >>

\* (mutant) the page-1 branch is lost: every response is appended
SetMoviesAppendOnly(prev, pg, data) == prev \o ResultsOf(data)

\* fetchMovies after the await: page === 1 replaces, any other page appends
SetMovies(prev, pg, data) ==
    IF pg = 1 THEN ResultsOf(data) ELSE prev \o ResultsOf(data)

\* (mutant) a body without `results` is taken for a failure
AfterAwaitStrict(prev, pg, got) ==
    IF got.threw \/ ~got.data.hasResults THEN prev ELSE SetMovies(prev, pg, got.data)

\* fetchMovies from the await on: the try block's setMovies, skipped when the
\* call threw (the catch only logs); the finally block's setLoading(false) is
\* applied by Settle
AfterAwait(prev, pg, got) ==
    IF got.threw THEN prev ELSE SetMovies(prev, pg, got.data)

\* proximity signals ignored in a row up to now
IgnoredRun == IF last.kind = "scroll" THEN dropped ELSE 0

\* (mutant) the `!loading` test is lost
HandleScrollUnguarded(pg, ld, near) == IF near THEN pg + 1 ELSE pg

\* (mutant) signals ignored while loading are replayed at the next call
HandleScrollQueued(pg, ld, near) ==
    IF near THEN (IF ~ld THEN pg + 1 + IgnoredRun ELSE pg) ELSE pg

\* (mutant) the listener is registered twice and each one advances the page
HandleScrollTwice(pg, ld, near) ==
    IF near THEN (IF ~ld THEN pg + 2 ELSE pg) ELSE pg

\* handleScroll: `ld` is the loading value of the render the handler was
\* created in; returns the page after setPage((prev) => prev + 1), if called
HandleScroll(pg, ld, near) ==
    IF near THEN (IF ~ld THEN pg + 1 ELSE pg) ELSE pg

\* (mutant) the reset goes to a 0-based first page
ResetEffectZero(pg) == 0

\* the reset effect, deps [debouncedSearch]: setPage(1)
ResetEffect(pg) == 1

\* (mutant) the fetch effect has lost its dependency list and runs after
\* every render
CommitFetchNoDeps(prev, cur, first, near) ==
    LET resetRuns  == first \/ cur.debounced # prev.debounced
        scrollRuns == first \/ cur.loading # prev.loading
        page1      == IF resetRuns THEN ResetEffect(cur.page) ELSE cur.page
        page2      == IF scrollRuns THEN HandleScroll(page1, cur.loading, near) ELSE page1
    IN  [next       |-> Snapshot(cur.movies, page2, TRUE, cur.debounced),
         dispatched |-> << NewFetch(cur.debounced, cur.page) >>]

\* One commit of Home: `prev` is the previous render, `cur` the render being
\* committed, `first` says it is the mount.  The effects run in source order,
\* each when one of its dependencies differs from the previous render; they read
\* `cur` and queue updates, applied in order to give the next render's state.
Commit(prev, cur, first, near) ==
    LET resetRuns  == first \/ cur.debounced # prev.debounced
        fetchRuns  == first \/ cur.page # prev.page \/ cur.debounced # prev.debounced
        scrollRuns == first \/ cur.loading # prev.loading
        page1      == IF resetRuns THEN ResetEffect(cur.page) ELSE cur.page
        loading1   == IF fetchRuns THEN TRUE ELSE cur.loading
        sent       == IF fetchRuns THEN << NewFetch(cur.debounced, cur.page) >> ELSE << >>
        page2      == IF scrollRuns THEN HandleScroll(page1, cur.loading, near) ELSE page1
    IN  [next       |-> Snapshot(cur.movies, page2, loading1, cur.debounced),
         dispatched |-> sent]

\* render and commit until a render whose effects change no state
RECURSIVE RunEffects(_, _, _, _, _)
RunEffects(prev, cur, acc, first, near) ==
    LET c    == Commit(prev, cur, first, near)
        acc2 == acc \o c.dispatched
    IN  IF c.next = cur THEN [state |-> cur, dispatched |-> acc2]
        ELSE RunEffects(cur, c.next, acc2, FALSE, near)

Current == Snapshot(movies, page, loading, debouncedValue)

RECURSIVE SeqToBag(_)
SeqToBag(s) == IF s = << >> THEN EmptyBag ELSE SetToBag({Head(s)}) (+) SeqToBag(Tail(s))

\* the state after an event changed the state to `cur`: the renders it causes,
\* within the bounds of the model
Rendered(cur, base, first, near, kind, req, outcome) ==
    \E r \in { RunEffects(Current, cur, << >>, first, near) } :
        /\ movies' = r.state.movies
        /\ page' = r.state.page
        /\ loading' = r.state.loading
        /\ debouncedValue' = r.state.debounced
        /\ inflight' = base (+) SeqToBag(r.dispatched)
        /\ last' = [kind |-> kind, req |-> req, outcome |-> outcome,
                    dispatched |-> r.dispatched]
        /\ issued' = issued + Len(r.dispatched)
        /\ issued' <= MaxFetches
        /\ UNCHANGED clockVars
        /\ UNCHANGED shellVars

----------------------------------------------------------------------------
(* Operations *)

InitButImages ==
    /\ mounted = FALSE
    /\ apiKey \in BOOLEAN
    /\ movies = << >>
    /\ searchQuery = EmptyStr
    /\ page = 1
    /\ loading = FALSE
    /\ debouncedValue = EmptyStr
    /\ timer = NoTimer
    /\ inflight = EmptyBag
    /\ issued = 0
    /\ keys = 0
    /\ dropped = 0
    /\ last = [kind |-> "init", req |-> NoReq, outcome |-> "none", dispatched |-> << >>]
    /\ now = 0
    /\ timers = {}
    /\ burst = NoBurst
    /\ torn = -1
    /\ started = FALSE
    /\ configCalls = 0
    /\ route = 0
    /\ instance = 0
    /\ movie = NoMovie
    /\ detailCalls = EmptyBag
    /\ loaded = FALSE
    /\ imageMounts = 0
    /\ wire = EmptyBag

Init ==
    /\ InitButImages
    /\ images = NoImages
    /\ element = NoElement

\* first commit of Home: every effect runs; useDebounce arms its timer
Mount(near) ==
    /\ ~mounted
    /\ mounted' = TRUE
    /\ timer' = [armed |-> TRUE, value |-> searchQuery]
    /\ Rendered(Current, inflight, TRUE, near, "mount", NoReq, "none")
    /\ UNCHANGED <<apiKey, searchQuery, keys, dropped>>

\* SearchBar onChange -> setSearchQuery(v); useDebounce's effect (deps
\* [value, delay]) clears the pending timer and arms one for v
Keystroke(v) ==
    /\ mounted
    /\ v # searchQuery
    /\ keys < MaxKeys
    /\ keys' = keys + 1
    /\ searchQuery' = v
    /\ timer' = [armed |-> TRUE, value |-> v]
    /\ Rendered(Current, inflight, FALSE, FALSE, "key", NoReq, "none")
    /\ dropped' = 0
    /\ UNCHANGED <<mounted, apiKey>>

\* the timeout callback of useDebounce: setDebouncedValue(value)
TimerFire ==
    /\ mounted
    /\ timer.armed
    /\ timer' = NoTimer
    /\ Rendered(Snapshot(movies, page, loading, timer.value), inflight, FALSE, TRUE,
                "timer", NoReq, "none")
    /\ dropped' = 0
    /\ UNCHANGED <<mounted, apiKey, searchQuery, keys>>

\* a scroll event near the bottom reaches the registered listener, whose closure
\* holds the committed `loading` (the effect re-registers it whenever `loading`
\* changes); a scroll event elsewhere on the page changes nothing
ScrollSignal ==
    /\ mounted
    /\ loading => IgnoredRun < MaxSignals
    /\ dropped' = IF loading THEN IgnoredRun + 1 ELSE 0
    /\ Rendered(Snapshot(movies, HandleScroll(page, loading, TRUE), loading,
                         debouncedValue),
                inflight, FALSE, TRUE, "scroll", NoReq, "none")
    /\ UNCHANGED <<mounted, apiKey, searchQuery, timer, keys>>

\* how a settled fetchMovies call ended, as the history variable records it
Outcome(got) ==
    IF got.threw THEN "threw"
    ELSE IF ~got.data.hasResults THEN "noresults"
    ELSE IF got.data.results = << >> THEN "empty" ELSE "ok"

\* an outstanding fetchMovies call resumes after its await with the remote
\* answer `resp`: try / catch / finally of fetchMovies.  `near` is the scroll
\* position handleScroll finds; the scroll effect calls it only when `loading`
\* changes, so the position is read only if `loading` was true
Settle(req, resp, near) ==
    /\ mounted
    /\ BagIn(req, inflight)
    /\ resp \in (IF apiKey THEN Responses ELSE {"nokey"})
    /\ ~loading => ~near
    /\ LET got == FetchFromTMDB(req.call, resp)
           mv  == AfterAwait(movies, req.page, got)
       IN  Rendered(Snapshot(mv, page, FALSE, debouncedValue),
                    inflight (-) SetToBag({req}), FALSE, near, "settle", req,
                    Outcome(got))
    /\ dropped' = IF IgnoredRun >= MaxSignals THEN IgnoredRun ELSE 0
    /\ UNCHANGED <<mounted, apiKey, searchQuery, timer, keys>>

Next ==
    \/ \E near \in BOOLEAN : Mount(near)
    \/ \E v \in Terms : Keystroke(v)
    \/ TimerFire
    \/ ScrollSignal
    \/ \E req \in BagToSet(inflight), resp \in Responses \cup {"nokey"},
          near \in BOOLEAN : Settle(req, resp, near)

Spec == Init /\ [][Next]_vars

\* One unchanged term and a reliable remote API: the user never types, the key
\* is present and every request is answered with its page of records
InitOneTerm == Init /\ apiKey

NextOneTerm ==
    \/ \E near \in BOOLEAN : Mount(near)
    \/ TimerFire
    \/ ScrollSignal
    \/ \E req \in BagToSet(inflight), near \in BOOLEAN : Settle(req, "ok", near)

SpecOneTerm == InitOneTerm /\ [][NextOneTerm]_vars

----------------------------------------------------------------------------
(* useDebounce in time *)

\* the timed view of the hook alone: `searchQuery` is its argument `value`,
\* `mounted` says that its owner is mounted, `keys` counts the inputs.  Time is
\* in ms.  A timeout callback runs at the instant it is due: tasks run in the
\* order they were queued, so an input arriving at that instant is handled
\* after it.

Delay == 500        \* the delay Home passes to useDebounce (Home.jsx:19)

MaxTime == 1500     \* the clock stops here
MaxInputs == 3      \* the value changes at most this often
Quantum == 100      \* the clock advances by at most this much in one step

homeVars == <<apiKey, movies, page, loading, timer, inflight, issued, dropped, last>>

RECURSIVE MinOf(_)
MinOf(S) == LET x == CHOOSE y \in S : TRUE
            IN  IF S = {x} THEN x
                ELSE LET m == MinOf(S \ {x}) IN IF x < m THEN x ELSE m

\* (mutant) the delay is not passed to setTimeout
SetTimeoutNoDelay(ts, v, t) == ts \cup { [value |-> v, due |-> t] }

\* (mutant) the timer is armed for longer than the delay
SetTimeoutLate(ts, v, t) == ts \cup { [value |-> v, due |-> t + Delay + Quantum] }

\* setTimeout(() => setDebouncedValue(v), delay) called at time t
SetTimeout(ts, v, t) == ts \cup { [value |-> v, due |-> t + Delay] }

\* (mutant) the effect returns no cleanup
CleanupKeeps(ts, v) == ts

\* the cleanup of the effect run for value v: clearTimeout(timer) on the timer
\* that run created
Cleanup(ts, v) == { t \in ts : t.value # v }

\* (mutant) the pending timer survives the unmount
UnmountedLeaks(ts, v) == ts

\* what React does with the hook when its owner unmounts: the last effect
\* run's cleanup
Unmounted(ts, v) == Cleanup(ts, v)

\* first commit of the owner: useState(value), then the effect arms a timer
UseDebounceMount ==
    /\ ~mounted
    /\ torn = -1
    /\ mounted' = TRUE
    /\ debouncedValue' = searchQuery
    /\ timers' = SetTimeout(timers, searchQuery, now)
    /\ UNCHANGED <<searchQuery, keys, now, burst, torn>>
    /\ UNCHANGED <<homeVars, shellVars>>

\* the owner re-renders with a new `value`: the effect (deps [value, delay])
\* runs the previous run's cleanup, then arms a timer for v
Input(v) ==
    /\ mounted
    /\ v # searchQuery
    /\ keys < MaxInputs
    /\ \A t \in timers : t.due > now
    /\ keys' = keys + 1
    /\ searchQuery' = v
    /\ timers' = SetTimeout(Cleanup(timers, searchQuery), v, now)
    /\ burst' = IF burst.len > 0 /\ now - burst.lastAt < Delay
                THEN [burst EXCEPT !.len = @ + 1, !.lastAt = now]
                ELSE [len |-> 1, lastAt |-> now, before |-> debouncedValue,
                      changes |-> 0, fires |-> 0, firedAt |-> 0]
    /\ UNCHANGED <<mounted, debouncedValue, now, torn>>
    /\ UNCHANGED <<homeVars, shellVars>>

\* a timer is due: its callback calls setDebouncedValue(value); React drops the
\* update of a component that is no longer mounted
Timeout ==
    /\ \E t \in timers :
        /\ t.due <= now
        /\ timers' = timers \ {t}
        /\ debouncedValue' = IF mounted THEN t.value ELSE debouncedValue
        /\ burst' = [burst EXCEPT !.fires = @ + 1, !.firedAt = now,
                                  !.changes = IF debouncedValue' # debouncedValue
                                              THEN @ + 1 ELSE @]
    /\ UNCHANGED <<mounted, searchQuery, keys, now, torn>>
    /\ UNCHANGED <<homeVars, shellVars>>

\* time passes, up to the next instant a timer is due
Tick ==
    /\ now < MaxTime
    /\ \A t \in timers : t.due > now
    /\ now' = MinOf({now + Quantum, MaxTime} \cup { t.due : t \in timers })
    /\ UNCHANGED <<mounted, searchQuery, debouncedValue, keys, timers, burst, torn>>
    /\ UNCHANGED <<homeVars, shellVars>>

\* the owner is unmounted: React runs the effect's cleanup
Unmount ==
    /\ mounted
    /\ mounted' = FALSE
    /\ torn' = now
    /\ timers' = Unmounted(timers, searchQuery)
    /\ UNCHANGED <<searchQuery, debouncedValue, keys, now, burst>>
    /\ UNCHANGED <<homeVars, shellVars>>

NextDebounce ==
    \/ UseDebounceMount
    \/ \E v \in Terms : Input(v)
    \/ Timeout
    \/ Tick
    \/ Unmount

SpecDebounce == InitOneTerm /\ [][NextDebounce]_vars

----------------------------------------------------------------------------
(* TMDBImage.jsx *)

\* the size tokens of the remote configuration
W92 == <<"w", "9", "2">>
W300 == <<"w", "3", "0", "0">>
W342 == <<"w", "3", "4", "2">>
W780 == <<"w", "7", "8", "0">>
Original == <<"o", "r", "i", "g", "i", "n", "a", "l">>

\* "https://img/t/p/"
BaseUrl == <<"h", "t", "t", "p", "s", ":", "/", "/", "i", "m", "g", "/", "t", "/", "p", "/">>

\* "/x.jpg"
XJpg == <<"/", "x", ".", "j", "p", "g">>

\* the values of the `type` prop; any value but "backdrop" is treated as a poster
Kinds == {"poster", "backdrop"}

\* the values of the `path` prop; null and undefined are falsy like ""
Paths == { EmptyStr, XJpg, <<"/", "p">> }

\* the size lists a remote configuration can hold for a kind
SizeLists == { << >>, <<Original>>, <<W92, W342, Original>>, <<W300, W780, Original>> }

\* the `images` objects a remote configuration can hold
ImageConfigs ==
    [resolved : {TRUE}, secure_base_url : {BaseUrl},
     poster_sizes : SizeLists, backdrop_sizes : SizeLists]

\* size.replace("w", ""): the first "w" of the token is removed
RECURSIVE ReplaceW(_)
ReplaceW(size) ==
    IF size = << >> THEN << >>
    ELSE IF Head(size) = "w" THEN Tail(size)
    ELSE <<Head(size)>> \o ReplaceW(Tail(size))

\* one entry of srcSet, `${baseUrl}${size}${path} ${size.replace("w", "")}w`:
\* the URL and, after the blank, the width descriptor
Candidate(baseUrl, size, path) ==
    [url |-> baseUrl \o size \o path, descriptor |-> ReplaceW(size) \o <<"w">>]

\* (mutant) the filter is lost: "original" gets an entry too
RECURSIVE SrcSetUnfiltered(_, _, _)
SrcSetUnfiltered(baseUrl, sizes, path) ==
    IF sizes = << >> THEN << >>
    ELSE <<Candidate(baseUrl, Head(sizes), path)>> \o SrcSetUnfiltered(baseUrl, Tail(sizes), path)

\* sizes.filter((size) => size !== "original").map(...), before the join
RECURSIVE SrcSet(_, _, _)
SrcSet(baseUrl, sizes, path) ==
    IF sizes = << >> THEN << >>
    ELSE IF Head(sizes) = Original THEN SrcSet(baseUrl, Tail(sizes), path)
    ELSE <<Candidate(baseUrl, Head(sizes), path)>> \o SrcSet(baseUrl, Tail(sizes), path)

\* (mutant) one literal size for both kinds, as in the grid
DefaultSizeW500(type) == <<"w", "5", "0", "0">>

\* type === "backdrop" ? "w780" : "w342"
DefaultSize(type) == IF type = "backdrop" THEN W780 ELSE W342

\* (mutant) only the configuration is tested, not the path
TMDBImageNoPathTest(path, type, imgs) ==
    IF imgs = NoImages THEN Null
    ELSE LET baseUrl == imgs.secure_base_url
             sizes   == IF type = "backdrop" THEN imgs.backdrop_sizes ELSE imgs.poster_sizes
         IN  [src    |-> baseUrl \o DefaultSize(type) \o path,
              srcSet |-> SrcSet(baseUrl, sizes, path)]

\* (mutant) nothing is rendered when the default size is not in the list
TMDBImageValidated(path, type, imgs) ==
    IF ~Truthy(path) \/ imgs = NoImages THEN Null
    ELSE LET baseUrl == imgs.secure_base_url
             sizes   == IF type = "backdrop" THEN imgs.backdrop_sizes ELSE imgs.poster_sizes
         IN  IF \A i \in 1..Len(sizes) : sizes[i] # DefaultSize(type) THEN Null
             ELSE [src    |-> baseUrl \o DefaultSize(type) \o path,
                   srcSet |-> SrcSet(baseUrl, sizes, path)]

\* one render of TMDBImage with the context value imgs: null, or the src and
\* srcSet of its <img>
TMDBImage(path, type, imgs) ==
    IF ~Truthy(path) \/ imgs = NoImages THEN Null
    ELSE LET baseUrl == imgs.secure_base_url
             sizes   == IF type = "backdrop" THEN imgs.backdrop_sizes ELSE imgs.poster_sizes
         IN  [src    |-> baseUrl \o DefaultSize(type) \o path,
              srcSet |-> SrcSet(baseUrl, sizes, path)]

\* (mutant) the provider hands down the value of its first render only
ContextImagesInitial(imgs) == NoImages

\* useContext(ConfigContext).images: the state of the ConfigProvider above
ContextImages(imgs) == imgs

\* TMDBImage as a component on its own: the props and the context value are
\* given, and it renders
InitImage ==
    /\ InitButImages
    /\ apiKey
    /\ images \in {NoImages} \cup ImageConfigs
    /\ element \in [path : Paths, type : Kinds, rendered : {FALSE}, out : {Null}]

Render ==
    /\ ~element.rendered
    /\ element' = [element EXCEPT !.rendered = TRUE,
                       !.out = TMDBImage(element.path, element.type, ContextImages(images))]
    /\ UNCHANGED <<mounted, apiKey, movies, searchQuery, page, loading, debouncedValue,
                   timer, inflight, issued, keys, dropped, last, clockVars>>
    /\ UNCHANGED <<started, images, configCalls, route, instance, movie, detailCalls,
                   loaded, imageMounts, wire>>

\* the parent renders it again with other props
Rerender(path, type) ==
    /\ element.rendered
    /\ <<path, type>> # <<element.path, element.type>>
    /\ element' = [path |-> path, type |-> type, rendered |-> TRUE,
                   out |-> TMDBImage(path, type, ContextImages(images))]
    /\ UNCHANGED <<mounted, apiKey, movies, searchQuery, page, loading, debouncedValue,
                   timer, inflight, issued, keys, dropped, last, clockVars>>
    /\ UNCHANGED <<started, images, configCalls, route, instance, movie, detailCalls,
                   loaded, imageMounts, wire>>

NextImage ==
    \/ Render
    \/ \E path \in Paths, type \in Kinds : Rerender(path, type)

SpecImage == InitImage /\ [][NextImage]_vars

----------------------------------------------------------------------------
(* The application shell: main.jsx, App.jsx, ConfigProvider, MovieDetails, TMDBImage *)

\* What Home does on route "/" is the subject of Spec; here only the remote
\* calls it makes through api.js are seen.  Home, the hook and the clock keep
\* their initial values.

MaxRequests == 5    \* at most this many HTTP requests are sent
Ids == 1..2         \* the movie ids the user can visit

\* the `images` object of the remote configuration
RemoteImages ==
    [resolved |-> TRUE,
     secure_base_url |-> BaseUrl,
     poster_sizes |-> <<W92, W342, Original>>,
     backdrop_sizes |-> <<W300, W780, Original>>]

\* the body the remote API returns for movie i, and its body for an error status
RemoteMovie(i, poster) ==
    [id |-> i, poster_path |-> IF poster THEN <<"/", "p">> ELSE EmptyStr, error |-> FALSE]

ErrorBody == [id |-> 0, poster_path |-> EmptyStr, error |-> TRUE]

\* what the remote API can answer to a configuration or movie request
ShellResponses == {"ok", "noposter", "http", "network", "json"}

\* n copies of endpoint e
Copies(e, n) == IF n = 0 THEN EmptyBag ELSE (e :> n)

\* fetchFromTMDB reaches fetch(url) only when the key is present
Sent(call) == IF apiKey THEN Copies(call.endpoint, 1) ELSE EmptyBag

\* fetchConfig and fetchMovie call fetch(...) themselves, whatever the key is
SentDirect(endpoint) == Copies(endpoint, 1)

\* (mutant) the effect of ConfigProvider has no dependency array
FetchConfigCallsEveryCommit(first) == 1

\* the fetchConfig calls one commit of ConfigProvider makes: its effect has
\* deps [], so only the first commit makes one
FetchConfigCalls(first) == IF first THEN 1 ELSE 0

\* (mutant) the catch falls back to a built-in configuration
FetchConfigFallback(prev, resp) ==
    IF resp \in {"http", "network", "json"} THEN RemoteImages
    ELSE IF resp = "noposter" THEN [RemoteImages EXCEPT !.poster_sizes = << >>]
    ELSE RemoteImages

\* fetchConfig after its await: setImages(data.images) on success, the catch
\* only logs; the answer "noposter" is a configuration without poster sizes
FetchConfig(prev, resp) ==
    IF resp \in {"http", "network", "json"} THEN prev
    ELSE IF resp = "noposter" THEN [RemoteImages EXCEPT !.poster_sizes = << >>]
    ELSE RemoteImages

\* fetchMovie after its await: fetch rejects on a network error, res.json()
\* on an unparsable body; the status is not looked at
FetchMovie(i, resp) ==
    IF resp \in {"network", "json"} THEN [threw |-> TRUE, data |-> NoMovie]
    ELSE IF resp = "http" THEN [threw |-> FALSE, data |-> ErrorBody]
    ELSE [threw |-> FALSE, data |-> RemoteMovie(i, resp = "ok")]

\* MovieDetails renders a TMDBImage: `movie` is set and has a poster_path
HasImage(m) == m # NoMovie /\ Truthy(m.poster_path)

\* the last render of the TMDBImage of MovieDetails, if it is mounted
Element(rt, mv, imgs) ==
    IF rt # 0 /\ HasImage(mv)
    THEN [path |-> mv.poster_path, type |-> "poster", rendered |-> TRUE,
          out |-> TMDBImage(mv.poster_path, "poster", ContextImages(imgs))]
    ELSE NoElement

\* the state of the list view and its hook, but for the history of the last step
listVars == <<mounted, apiKey, movies, searchQuery, page, loading, debouncedValue,
              timer, inflight, issued, keys, dropped>>

\* the history of a step of the shell: the event, the call it answers or makes
\* and the remote answer
ShellEvent(kind, req, resp) ==
    [kind |-> kind, req |-> req, outcome |-> resp, dispatched |-> << >>]

\* a MovieDetails effect run for id i, made by instance k
DetailCall(i, k) == [id |-> i, inst |-> k]

\* the answers a request can get: without a key the remote API refuses
Answers == IF apiKey THEN ShellResponses ELSE {"http", "network"}

\* createRoot(...).render(...) on the URL of route r: ConfigProvider mounts and
\* its effect calls fetchConfig; on "/i" MovieDetails mounts and fetches movie i
AppStart(r) ==
    /\ ~started
    /\ started' = TRUE
    /\ route' = r
    /\ configCalls' = configCalls + FetchConfigCalls(TRUE)
    /\ instance' = IF r = 0 THEN instance ELSE instance + 1
    /\ detailCalls' = IF r = 0 THEN detailCalls
                      ELSE detailCalls (+) SetToBag({DetailCall(r, instance')})
    /\ wire' = wire (+) Copies("configuration", FetchConfigCalls(TRUE))
                    (+) (IF r = 0 THEN EmptyBag ELSE SentDirect("movie"))
    /\ UNCHANGED <<images, movie, loaded, imageMounts>>
    /\ last' = ShellEvent("start", NoReq, "none")
    /\ element' = Element(route', movie', images')
    /\ UNCHANGED <<listVars, clockVars>>

\* a fetchConfig call resumes with the remote answer; a change of `images`
\* re-renders ConfigProvider and every consumer of the context
ConfigSettle(resp) ==
    /\ configCalls > 0
    /\ resp \in Answers
    /\ images' = FetchConfig(images, resp)
    /\ LET again == IF images' # images THEN FetchConfigCalls(FALSE) ELSE 0
       IN  /\ configCalls' = configCalls - 1 + again
           /\ wire' = wire (+) Copies("configuration", again)
    /\ BagCardinality(wire') <= MaxRequests
    /\ UNCHANGED <<started, route, instance, movie, detailCalls, loaded, imageMounts>>
    /\ last' = ShellEvent("config", NoReq, resp)
    /\ element' = Element(route', movie', images')
    /\ UNCHANGED <<listVars, clockVars>>

\* the route changes to r: to "/" (MovieDetails unmounts), from "/" to "/r" (a
\* new MovieDetails mounts) or from "/i" to "/r" (the same instance, deps [id])
Navigate(r) ==
    /\ started
    /\ r # route
    /\ route' = r
    /\ instance' = IF r # 0 /\ route = 0 THEN instance + 1 ELSE instance
    /\ movie' = IF r # 0 /\ route # 0 THEN movie ELSE NoMovie
    /\ loaded' = IF r # 0 /\ route # 0 THEN loaded ELSE FALSE
    /\ detailCalls' = IF r = 0 THEN detailCalls
                      ELSE detailCalls (+) SetToBag({DetailCall(r, instance')})
    /\ wire' = wire (+) (IF r = 0 THEN EmptyBag ELSE SentDirect("movie"))
    /\ BagCardinality(wire') <= MaxRequests
    /\ UNCHANGED <<started, images, configCalls, imageMounts>>
    /\ last' = ShellEvent("navigate", NoReq, "none")
    /\ element' = Element(route', movie', images')
    /\ UNCHANGED <<listVars, clockVars>>

\* a fetchMovie call resumes with the remote answer: setMovie(data), which
\* React drops when the instance that made the call is no longer mounted
DetailSettle(c, resp) ==
    /\ BagIn(c, detailCalls)
    /\ resp \in Answers
    /\ detailCalls' = detailCalls (-) SetToBag({c})
    /\ LET got  == FetchMovie(c.id, resp)
           live == route # 0 /\ c.inst = instance
       IN  movie' = IF live /\ ~got.threw THEN got.data ELSE movie
    /\ loaded' = (loaded /\ HasImage(movie'))
    /\ imageMounts' = IF HasImage(movie') /\ ~HasImage(movie) THEN imageMounts + 1
                      ELSE imageMounts
    /\ UNCHANGED <<started, images, configCalls, route, instance, wire>>
    /\ last' = ShellEvent("detail", c, resp)
    /\ element' = Element(route', movie', images')
    /\ UNCHANGED <<listVars, clockVars>>

\* the <img> of the mounted TMDBImage has loaded: onLoad -> setLoaded(true)
ImageLoaded ==
    /\ route # 0
    /\ HasImage(movie)
    /\ images # NoImages
    /\ ~loaded
    /\ loaded' = TRUE
    /\ UNCHANGED <<started, images, configCalls, route, instance, movie, detailCalls,
                   imageMounts, wire>>
    /\ last' = ShellEvent("image", NoReq, "none")
    /\ element' = Element(route', movie', images')
    /\ UNCHANGED <<listVars, clockVars>>

\* Home, shown on "/", makes the list call for (term, pg) through fetchFromTMDB
ListCall(term, pg) ==
    /\ started
    /\ route = 0
    /\ wire' = wire (+) Sent(CallFor(term, pg))
    /\ BagCardinality(wire') <= MaxRequests
    /\ UNCHANGED <<started, images, configCalls, route, instance, movie, detailCalls,
                   loaded, imageMounts>>
    /\ last' = ShellEvent("list", NewFetch(term, pg), "none")
    /\ element' = Element(route', movie', images')
    /\ UNCHANGED <<listVars, clockVars>>

NextShell ==
    \/ \E r \in {0} \cup Ids : AppStart(r)
    \/ \E resp \in ShellResponses : ConfigSettle(resp)
    \/ \E r \in {0} \cup Ids : Navigate(r)
    \/ \E c \in BagToSet(detailCalls), resp \in ShellResponses : DetailSettle(c, resp)
    \/ ImageLoaded
    \/ \E term \in Terms, pg \in 1..2 : ListCall(term, pg)

SpecShell == Init /\ [][NextShell]_vars

----------------------------------------------------------------------------
(* Properties *)

\* the records the remote API returns for page pg of a term
PageOf(term, pg) == Batch(CallFor(term, pg))

\* pages 1..k of a term, in ascending order
RECURSIVE PagesUpTo(_, _)
PagesUpTo(term, k) == IF k = 0 THEN << >> ELSE PagesUpTo(term, k - 1) \o PageOf(term, k)

\* the step that led to l was the settlement of a fetchMovies call
Settled(l) == l.kind = "settle"

\* ... and the call had not thrown
Succeeded(l) == Settled(l) /\ l.outcome \in {"ok", "empty", "noresults"}

\* the batch a settled call returned (data.results || [])
Returned(l) == IF l.outcome = "ok" THEN Batch(l.req.call) ELSE << >>

\* C1: stale-response drop.  The page-1 response of the current debounced term
\* has just been applied, so `results` is what it produced; then a search fetch
\* issued for (termA, n > 1), termA another term, settles: `results` stays as it
\* is, the termA batch is not appended.
C1_StaleResponseDropped ==
    [][ ( /\ Succeeded(last)
          /\ last.req.term = debouncedValue
          /\ last.req.page = 1
          /\ movies = PageOf(debouncedValue, 1)
          /\ Settled(last')
          /\ last'.req.call.endpoint = "search"
          /\ last'.req.page > 1
          /\ last'.req.term # debouncedValue )
        => movies' = movies ]_vars

\* C2: a completed fetch changes `results` only if the term it was issued for
\* is the current debounced term when it completes.
C2_OnlyCurrentTermMutates ==
    [][ (Settled(last') /\ movies' # movies) => last'.req.term = debouncedValue ]_vars

\* C3: page reset on term change.  The first fetch dispatched by a change of
\* the debounced term is for page 1 of the new term, whatever the page was.
C3_FirstFetchAfterTermChangeIsPage1 ==
    (last.kind = "timer" /\ last.dispatched # << >>)
        => (Head(last.dispatched).page = 1 /\ Head(last.dispatched).term = debouncedValue)

\* C4: with one unchanged term and every request answered, `results` is at
\* every state the pages 1..k of the term in ascending order, for some k <= page.
C4_PagesInOrder ==
    \E k \in 0..page : movies = PagesUpTo(debouncedValue, k)

\* C5: replace vs. append.  A successful response issued for page 1 sets
\* `results` to exactly the returned batch; one issued for a page > 1 sets it to
\* the prior list followed by the returned batch.
C5_ReplaceOrAppend ==
    [][ Succeeded(last') =>
          movies' = IF last'.req.page = 1 THEN Returned(last')
                    ELSE movies \o Returned(last') ]_vars

\* C5 witness: the page-2 response of a term has been appended to its page-1
\* batch ([A,B] then [C,D] gives [A,B,C,D])
C5_Witness ==
    /\ Settled(last) /\ last.outcome = "ok" /\ last.req.page = 2
    /\ movies = PageOf(last.req.term, 1) \o PageOf(last.req.term, 2)

\* C6: a proximity signal that fires while `loading` is true changes nothing
\* of the controller: `page` is unchanged, no fetch is dispatched, nothing is
\* kept for later.
C6_ScrollWhileLoadingDropped ==
    [][ (last'.kind = "scroll" /\ loading)
          => (UNCHANGED progVars /\ last'.dispatched = << >>) ]_vars

\* C6 witness: a proximity signal has just been ignored
C6_Witness == last.kind = "scroll" /\ dropped >= 1 /\ loading

\* C7: when a fetch settles after any number of ignored proximity signals, the
\* page grows by at most 1, and by 1 only together with the single fetch of
\* that page.
C7_AtMostOneAdvance ==
    [][ (Settled(last') /\ IgnoredRun >= 1)
          => \/ (page' = page /\ last'.dispatched = << >>)
             \/ (page' = page + 1
                 /\ last'.dispatched = << NewFetch(debouncedValue, page + 1) >>) ]_vars

\* C7 witness: a full burst of signals was ignored, then the fetch settled and
\* the page advanced once
C7_Witness ==
    /\ Settled(last) /\ dropped >= MaxSignals
    /\ last.dispatched = << NewFetch(debouncedValue, page) >>

\* C8: `loading` is true exactly when a search/trending fetch is outstanding.
C8_LoadingIffOutstanding == loading <=> (inflight # EmptyBag)

\* C9: a fetch that fails leaves `results` as it was and clears `loading`
\* (`loading` is true afterwards only if the step went on to fetch the next
\* page), the failed (term, page) is not requested again by that step, and the
\* component stays mounted, its handlers in place.
C9_FailureContained ==
    [][ (Settled(last') /\ last'.outcome = "threw")
          => /\ movies' = movies
             /\ mounted'
             /\ \/ (~loading' /\ page' = page /\ last'.dispatched = << >>)
                \/ (loading' /\ page' = page + 1
                    /\ last'.dispatched = << NewFetch(debouncedValue, page + 1) >>)
             /\ \A j \in 1..Len(last'.dispatched) : last'.dispatched[j] # last'.req ]_vars

\* the text without its leading and trailing blanks (String.prototype.trim)
RECURSIVE TrimLeft(_)
TrimLeft(s) == IF s # << >> /\ Head(s) = " " THEN TrimLeft(Tail(s)) ELSE s

RECURSIVE TrimRight(_)
TrimRight(s) ==
    IF s # << >> /\ s[Len(s)] = " " THEN TrimRight(SubSeq(s, 1, Len(s) - 1)) ELSE s

Trim(s) == TrimRight(TrimLeft(s))

\* C10: the search endpoint is never called with a query that is empty after
\* trimming; such a term is routed to the trending endpoint.
C10_NoBlankSearch ==
    \A r \in BagToSet(inflight) :
        /\ r.call.endpoint = "search" => Len(Trim(r.call.query)) > 0
        /\ Len(Trim(r.term)) = 0 => r.call.endpoint = "trending"

\* the timer armed for the last input of the current burst has run out
QuietSince == burst.len >= 1 /\ torn = -1 /\ now > burst.lastAt + Delay

\* C11, as stated: for inputs each less than Delay ms after the previous one the
\* debounced value changes exactly once, to the last input, Delay ms after the
\* last input, and no earlier input of the burst is emitted
C11_ChangesExactlyOnce ==
    burst.len >= 1 =>
        /\ burst.changes <= 1
        /\ burst.changes = 0 => debouncedValue = burst.before
        /\ burst.changes = 1 => /\ debouncedValue = searchQuery
                                /\ burst.firedAt = burst.lastAt + Delay
        /\ QuietSince => burst.changes = 1

\* C11, amended: for inputs each less than Delay ms after the previous one the
\* timeout callback runs exactly once, Delay ms after the last input, and sets
\* the debounced value to the last input; no earlier input of the burst is
\* emitted; the debounced value changes at that instant if and only if the last
\* input differs from the value it had before the burst, and does not change
\* otherwise
C11_SettlesOnLastInput ==
    burst.len >= 1 =>
        /\ burst.fires <= 1
        /\ burst.changes <= burst.fires
        /\ burst.fires = 0 => debouncedValue = burst.before
        /\ burst.fires = 1 => /\ debouncedValue = searchQuery
                              /\ burst.firedAt = burst.lastAt + Delay
                              /\ burst.changes = 1 <=> searchQuery # burst.before
        /\ QuietSince => burst.fires = 1

\* three inputs at 0, 100 and 200 ms at the latest, one emission at 700 ms
C11_Witness ==
    /\ burst.len = 3
    /\ burst.lastAt = 200
    /\ burst.fires = 1
    /\ burst.changes = 1
    /\ burst.firedAt = 700
    /\ debouncedValue = searchQuery

\* C13: at every state at most one debounce timer is pending, and it is the one
\* armed for the most recent input value (an input cancels the timer of the
\* value before it)
C13_OnePendingTimer ==
    /\ Cardinality(timers) <= 1
    /\ \A t \in timers :
        /\ t.value = searchQuery
        /\ burst.len >= 1 => t.due = burst.lastAt + Delay

\* an input superseded an input whose timer was still pending
C13_Witness ==
    /\ burst.len >= 2
    /\ timers = { [value |-> searchQuery, due |-> burst.lastAt + Delay] }
    /\ now < burst.lastAt + Delay

\* C14: once the owner of the debouncer is unmounted no timer is pending, no
\* timeout callback runs and the debounced value is not updated any more, even
\* if an input arrived less than Delay ms before the unmount
C14_NoEmissionAfterTeardown ==
    /\ [](torn # -1 => timers = {})
    /\ [][torn # -1 => /\ debouncedValue' = debouncedValue
                       /\ burst'.fires = burst.fires]_vars

\* the owner was unmounted less than Delay ms after an input, and the instant
\* the input would have been emitted has passed
C14_Witness ==
    /\ torn # -1
    /\ burst.len >= 1
    /\ torn < burst.lastAt + Delay
    /\ now > burst.lastAt + Delay
    /\ burst.fires = 0
    /\ debouncedValue # searchQuery

\* C12: a burst of keystrokes (each made while the timer of the previous one is
\* still pending) that settles on a new term causes exactly one movie-list
\* request, carrying the final text, whatever the page was
C12_OneRequestPerBurst ==
    [][ (last'.kind = "timer" /\ keys >= 1 /\ debouncedValue' # debouncedValue)
        => /\ Len(last'.dispatched) = 1
           /\ Head(last'.dispatched).term = searchQuery
           /\ Head(last'.dispatched).call = CallFor(searchQuery, Head(last'.dispatched).page)
      ]_vars

\* C15: a successful response without a `results` field is an empty batch, not
\* an error: it empties the results when its call was made for page 1, leaves
\* them as they are for any other page, and `loading` is cleared by the success
\* path (it is true afterwards only for a fetch dispatched by the same step)
C15_NoResultsIsEmptyBatch ==
    [][ (Settled(last') /\ last'.outcome = "noresults")
        => /\ Succeeded(last')
           /\ movies' = IF last'.req.page = 1 THEN << >> ELSE movies
           /\ loading' <=> last'.dispatched # << >>
      ]_vars

\* a response without `results` for page 1 has emptied the results
C15_Witness ==
    /\ Settled(last)
    /\ last.outcome = "noresults"
    /\ last.req.page = 1
    /\ movies = << >>
    /\ ~loading

\* C16: no fetch is issued merely because an earlier fetch settled (with
\* records, with an empty batch, or with a failure)
C16_NoAutomaticFetch == Settled(last) => last.dispatched = << >>

\* C17: a proximity signal while `loading` is false sets page to page + 1 and
\* triggers exactly one fetch, for the current term and page + 1, which sets
\* `loading`
C17_ScrollAdvanceWhenIdle ==
    [][ (last'.kind = "scroll" /\ ~loading)
        => /\ page' = page + 1
           /\ last'.dispatched = << NewFetch(debouncedValue, page + 1) >>
           /\ loading'
           /\ debouncedValue' = debouncedValue
           /\ movies' = movies
      ]_vars

\* an idle controller has advanced on a proximity signal
C17_Witness ==
    /\ last.kind = "scroll"
    /\ last.dispatched = << NewFetch(debouncedValue, page) >>
    /\ page >= 2
    /\ loading

\* the remote call a fetch for (term, pg) has to make
EndpointFor(term, pg) ==
    IF Len(term) > 0 THEN [endpoint |-> "search", query |-> term, page |-> pg]
    ELSE [endpoint |-> "trending", query |-> EmptyStr, page |-> pg]

\* C18: every dispatched list fetch calls the search endpoint with (term, page)
\* when the debounced term is a non-empty string and the trending endpoint with
\* (page) otherwise, term and page being those of the render that triggered it
C18_EndpointSelection ==
    [][ \A j \in 1..Len(last'.dispatched) :
            LET d == last'.dispatched[j]
            IN  /\ d.term = debouncedValue'
                /\ d.page \in {page, page'}
                /\ d.call = EndpointFor(d.term, d.page)
      ]_vars

\* the step before dispatched a fetch and a search for page 2 is outstanding
C18_Witness ==
    /\ \E r \in BagToSet(inflight) : r.call = [endpoint |-> "search", query |-> <<"a">>, page |-> 2]
    /\ issued >= 2
    /\ last.dispatched # << >>

\* C19: with the API key absent none of the four remote calls (trending,
\* search, movie detail, configuration) sends an HTTP request
C19_NoRequestWithoutKey == ~apiKey => wire = EmptyBag

\* C20: the configuration endpoint is requested exactly once, at application
\* start, however many TMDBImage instances are mounted or re-rendered before or
\* after the configuration resolves
C20_ConfigRequestedOnce ==
    CopiesIn("configuration", wire) = IF started THEN 1 ELSE 0

\* a second TMDBImage instance was mounted, the configuration has resolved and
\* the image consumer has re-rendered with it
C20_Witness ==
    /\ imageMounts >= 2
    /\ images # NoImages
    /\ configCalls = 0
    /\ loaded
    /\ CopiesIn("configuration", wire) = 1

\* the sizes of a list that are not "original", in the list's order
Sized(sizes) == SelectSeq(sizes, LAMBDA t : t # Original)

DigitChars == <<"0", "1", "2", "3", "4", "5", "6", "7", "8", "9">>

IsNumber(str) ==
    /\ str # << >>
    /\ \A i \in 1..Len(str) : \E d \in 1..10 : DigitChars[d] = str[i]

\* the number a string of decimal digits denotes
RECURSIVE ParseInt(_)
ParseInt(str) ==
    IF str = << >> THEN 0
    ELSE 10 * ParseInt(SubSeq(str, 1, Len(str) - 1))
         + (CHOOSE d \in 0..9 : DigitChars[d + 1] = str[Len(str)])

\* the pixel width a width descriptor ("92w") states, -1 if it states none
WidthOf(descriptor) ==
    IF /\ Len(descriptor) >= 2
       /\ descriptor[Len(descriptor)] = "w"
       /\ IsNumber(SubSeq(descriptor, 1, Len(descriptor) - 1))
    THEN ParseInt(SubSeq(descriptor, 1, Len(descriptor) - 1))
    ELSE -1

\* C23: nothing is rendered (null) whenever the path is empty or the
\* configuration is unresolved, for either kind: no URL is built from an
\* unresolved configuration or an empty path
C23_NullWithoutPathOrConfig ==
    (element.rendered /\ (Len(element.path) = 0 \/ images = NoImages))
        => element.out = Null

\* a backdrop with a path was rendered to nothing under an unresolved configuration
C23_Witness ==
    /\ element.rendered
    /\ element.type = "backdrop"
    /\ element.path = XJpg
    /\ images = NoImages
    /\ element.out = Null

\* C24: with a resolved configuration and a non-empty path the default URL is
\* baseUrl + "w780" + path for a backdrop and baseUrl + "w342" + path for a poster
C24_DefaultUrl ==
    (element.rendered /\ Len(element.path) > 0 /\ images # NoImages)
        => /\ element.out # Null
           /\ element.out.src =
                  images.secure_base_url
                  \o (IF element.type = "backdrop" THEN <<"w", "7", "8", "0">>
                      ELSE <<"w", "3", "4", "2">>)
                  \o element.path

\* baseUrl "https://img/t/p/", path "/x.jpg", poster: "https://img/t/p/w342/x.jpg"
C24_Witness ==
    /\ element.rendered
    /\ element.type = "poster"
    /\ element.path = <<"/", "x", ".", "j", "p", "g">>
    /\ images # NoImages
    /\ images.poster_sizes = <<W92, W342, Original>>
    /\ element.out # Null
    /\ element.out.src = <<"h", "t", "t", "p", "s", ":", "/", "/", "i", "m", "g", "/",
                           "t", "/", "p", "/", "w", "3", "4", "2",
                           "/", "x", ".", "j", "p", "g">>

\* C25: the candidate sequence of a kind has one (url, width) pair for every
\* size token of that kind's list except "original", in the list's order, with
\* url = baseUrl + token + path and width the number in the token
C25_Candidates ==
    (element.rendered /\ element.out # Null)
        => LET sizes == Sized(IF element.type = "backdrop" THEN images.backdrop_sizes
                              ELSE images.poster_sizes)
               cands == element.out.srcSet
           IN  /\ Len(cands) = Len(sizes)
               /\ \A i \in 1..Len(cands) :
                    /\ cands[i].url = images.secure_base_url \o sizes[i] \o element.path
                    /\ sizes[i][1] = "w"
                    /\ IsNumber(Tail(sizes[i]))
                    /\ WidthOf(cands[i].descriptor) = ParseInt(Tail(sizes[i]))

\* poster sizes w92, w342, original and path "/x.jpg": two candidates, the first
\* ("https://img/t/p/w92/x.jpg", 92)
C25_Witness ==
    /\ element.rendered
    /\ element.type = "poster"
    /\ images # NoImages
    /\ images.poster_sizes = <<W92, W342, Original>>
    /\ element.out # Null
    /\ Len(element.out.srcSet) = 2
    /\ element.out.srcSet[1].url = <<"h", "t", "t", "p", "s", ":", "/", "/", "i", "m", "g",
                                     "/", "t", "/", "p", "/", "w", "9", "2",
                                     "/", "x", ".", "j", "p", "g">>
    /\ WidthOf(element.out.srcSet[1].descriptor) = 92

\* C27: with an empty size list for a kind the candidate sequence of that kind
\* is empty and the default URL is still baseUrl + default size + path; the
\* default size is not looked up in the list
C27_EmptySizeList ==
    (element.rendered /\ Len(element.path) > 0 /\ images # NoImages)
        => LET sizes == IF element.type = "backdrop" THEN images.backdrop_sizes
                        ELSE images.poster_sizes
               token == IF element.type = "backdrop" THEN W780 ELSE W342
           IN  /\ sizes = << >> => /\ element.out # Null
                                   /\ element.out.srcSet = << >>
               /\ (\A i \in 1..Len(sizes) : sizes[i] # token)
                      => /\ element.out # Null
                         /\ element.out.src = images.secure_base_url \o token \o element.path

\* a poster rendered from a configuration whose poster list is empty
C27_Witness ==
    /\ element.rendered
    /\ element.type = "poster"
    /\ element.path = XJpg
    /\ images # NoImages
    /\ images.poster_sizes = << >>
    /\ element.out # Null
    /\ element.out.srcSet = << >>
    /\ element.out.src = BaseUrl \o W342 \o XJpg

\* the ways a configuration or movie request fails in transport
Failures == {"http", "network"}

\* the one configuration request has been answered and left `images` unresolved
ConfigFailed == started /\ configCalls = 0 /\ images = NoImages

\* C21: when the configuration fetch fails (network error, non-success status,
\* unparsable body) the configuration is unresolved in every later state, no
\* second configuration request is made, and the image consumer keeps rendering
\* nothing
C21_ConfigFailureStays ==
    [][ /\ (last'.kind = "config" /\ last'.outcome \in Failures \cup {"json"})
            => ConfigFailed'
        /\ ConfigFailed
            => /\ ConfigFailed'
               /\ CopiesIn("configuration", wire') = 1
               /\ element'.out = Null
      ]_vars

\* the configuration fetch failed, and a TMDBImage mounted afterwards with a
\* poster path renders nothing
C21_Witness ==
    /\ ConfigFailed
    /\ last.kind = "detail"
    /\ route # 0
    /\ Len(movie.poster_path) > 0
    /\ element.rendered
    /\ element.out = Null

\* C22: `images` is written at most once: it is null until the first
\* successful resolution and never changes once it holds a resolved value
C22_ImagesWrittenOnce ==
    [][ /\ images # NoImages => images' = images
        /\ images' # images => /\ last'.kind = "config"
                               /\ last'.outcome \in {"ok", "noposter"}
      ]_vars

\* the configuration resolved, and steps were taken since
C22_Witness ==
    /\ images # NoImages
    /\ configCalls = 0
    /\ last.kind = "detail"
    /\ imageMounts >= 1

\* C28: once the configuration fetch has succeeded every mounted image consumer
\* with a non-empty path has a URL, also the one that was mounted while the
\* configuration was pending
C28_AvailableOnceResolved ==
    (images # NoImages /\ route # 0 /\ movie # NoMovie /\ Len(movie.poster_path) > 0)
        => /\ element.rendered
           /\ element.out # Null
           /\ element.out.src = images.secure_base_url \o W342 \o movie.poster_path

\* the configuration has just resolved under a TMDBImage mounted before, which
\* now has its URL
C28_Witness ==
    /\ last.kind = "config"
    /\ last.outcome = "ok"
    /\ route # 0
    /\ Len(movie.poster_path) > 0
    /\ element.out # Null

\* C29: a non-success status or a network error on the movie-detail or the
\* configuration fetch leaves the displayed movie and `images` as they were,
\* and no error body is stored as the movie
C29_TransportFailureContained ==
    [][ /\ (last'.kind = "detail" /\ last'.outcome \in Failures) => movie' = movie
        /\ (last'.kind = "config" /\ last'.outcome \in Failures) => images' = images
        /\ ~movie'.error
      ]_vars

----------------------------------------------------------------------------
(* useDebounce.js: MovieGrid *)

\* the prefix written in MovieGrid's <img src>
TmdbW500 == <<"h","t","t","p","s",":","/","/","i","m","a","g","e",".","t","m","d","b",
              ".","o","r","g","/","t","/","p","/","w","5","0","0">>

\* movie.poster_path of a record of the list: the remote holds a poster for
\* the records of page 1 and none for the others
PosterPath(m) == IF m.p = 1 THEN XJpg ELSE EmptyStr

\* one card of MovieGrid: movie.poster_path ? <img src=...> : "No Image"; the
\* configuration in the context above is not read
MovieCard(m, imgs) ==
    IF Truthy(PosterPath(m)) THEN [src |-> TmdbW500 \o PosterPath(m)] ELSE Null

\* the images of the grid, one per displayed movie
MovieGrid(mv, imgs) == [j \in 1..Len(mv) |-> MovieCard(mv[j], imgs)]

\* the set of the size tokens of a list
Tokens(sizes) == { sizes[j] : j \in 1..Len(sizes) }

\* the image is a URL made of the configuration's base, one of its size tokens
\* (or the default token of its kind) and the path
FromConfig(img, path, type, imgs) ==
    /\ imgs # NoImages
    /\ \E t \in Tokens(imgs.poster_sizes) \cup Tokens(imgs.backdrop_sizes)
                  \cup {DefaultSize(type)} :
           img.src = imgs.secure_base_url \o t \o path

\* C26: every image URL a view renders, in the list grid or on the detail
\* page, is built from the resolved configuration; no view renders an image
\* URL while the configuration is unresolved
C26_ImagesFromConfig ==
    /\ \A j \in 1..Len(movies) :
           LET img == MovieGrid(movies, images)[j]
           IN  img # Null => FromConfig(img, PosterPath(movies[j]), "poster", images)
    /\ element.out # Null => FromConfig(element.out, element.path, element.type, images)

\* the first request of the list view at mount
TrendingPage1 ==
    [term |-> EmptyStr, page |-> 1,
     call |-> [endpoint |-> "trending", query |-> EmptyStr, page |-> 1]]

\* C30: at mount the debounced term is empty and the first fetch dispatched is
\* the trending call for page 1; when it returns its batch, that batch is the
\* displayed list
C30_FirstLoad ==
    /\ last.kind = "mount"
           => /\ debouncedValue = EmptyStr
              /\ last.dispatched # << >>
              /\ Head(last.dispatched) = TrendingPage1
              /\ issued = Len(last.dispatched)
    /\ (Settled(last) /\ last.req = TrendingPage1 /\ last.outcome = "ok")
           => movies = << [q |-> EmptyStr, p |-> 1] >>

\* the mount's trending request, the only one issued, has returned its batch
C30_Witness ==
    /\ Settled(last)
    /\ last.req = TrendingPage1
    /\ last.outcome = "ok"
    /\ issued = 1
    /\ keys = 0
    /\ movies = << [q |-> EmptyStr, p |-> 1] >>

\* C31: page is an integer >= 1 in every state, and every step leaves it
\* unchanged, sets it to 1 or increases it by exactly 1
C31_PageCursor ==
    [][ /\ page \in Nat /\ page >= 1
        /\ page' \in Nat /\ page' >= 1
        /\ page' = page \/ page' = 1 \/ page' = page + 1
      ]_vars

\* a settled term change made at page 2 has reset the page to 1: the fetch
\* effect of the same commit still saw page 2
C31_Witness ==
    /\ last.kind = "timer"
    /\ last.dispatched # << >>
    /\ Head(last.dispatched).page = 2
    /\ page = 1

----------------------------------------------------------------------------
(* Home.jsx and MovieGrid: what the list view displays *)

\* MovieGrid's first branch: `!movies || movies.length === 0` returns the
\* "No Movies Found" block; `loading` is not a prop of MovieGrid
NoMoviesFound(mv) == Len(mv) = 0

\* Home's return: MovieGrid with `movies`, and {loading && <p>Loading...</p>}
HomeView(mv, ld) == [loadingShown |-> ld, emptyShown |-> NoMoviesFound(mv)]

\* C32: the loading indicator is displayed exactly when `loading` is true, and
\* the empty-state message exactly when `results` is empty and `loading` is
\* false
C32_Indicators ==
    mounted =>
        /\ HomeView(movies, loading).loadingShown <=> loading
        /\ HomeView(movies, loading).emptyShown <=> (movies = << >> /\ ~loading)

\* the j-th fetch dispatched by the step that led to the state with history l
\* follows, in that step, a fetch for the same term and the page before
FollowsInStep(l, j) ==
    \E i \in 1..(j - 1) :
        /\ l.dispatched[i].term = l.dispatched[j].term
        /\ l.dispatched[i].page = l.dispatched[j].page - 1

\* C33: pages are fetched consecutively per term.  A fetch for (term, n), n > 1,
\* is dispatched only after a fetch for (term, n - 1) dispatched since the term
\* became current: earlier in the same step, or, when the step does not change
\* the term, for the page the controller was on
C33_ConsecutivePages ==
    [][ \A j \in 1..Len(last'.dispatched) :
            LET d == last'.dispatched[j]
            IN  d.page > 1
                    => \/ FollowsInStep(last', j)
                       \/ /\ debouncedValue' = debouncedValue
                          /\ d.term = debouncedValue
                          /\ d.page = page + 1
      ]_vars

\* the displayed list is not empty and none of its records is of term t
OfAnotherTerm(mv, t) == mv # << >> /\ \A j \in 1..Len(mv) : mv[j].q # t

\* C34: only a successful fetch response changes `results` (a keystroke, a
\* term change, a page reset, a scroll advance, a dispatch and a failure do
\* not), and a list of the previous term stays displayed until the page-1
\* response of the current term replaces it
C34_OnlySuccessChangesResults ==
    [][ movies' # movies
        => /\ Succeeded(last')
           /\ OfAnotherTerm(movies, debouncedValue')
                  => /\ last'.req.term = debouncedValue'
                     /\ last'.req.page = 1
                     /\ movies' = Returned(last')
      ]_vars

\* C35: while the owner stays mounted the debounced value equals the latest
\* input at the latest Delay ms after the input stopped changing (until then
\* the timer of the latest input is pending, due Delay ms after that input, and
\* time does not pass a due timer), it stays equal to it while the input does
\* not change, and it only ever changes to a value that was the input
C35_SettlesWithinDelay ==
    /\ [](mounted => \/ debouncedValue = searchQuery
                     \/ /\ burst.len >= 1
                        /\ now <= burst.lastAt + Delay
                        /\ \E t \in timers : /\ t.value = searchQuery
                                             /\ t.due = burst.lastAt + Delay)
    /\ [][ /\ (mounted /\ mounted' /\ debouncedValue = searchQuery
                  /\ searchQuery' = searchQuery) => debouncedValue' = searchQuery
           /\ debouncedValue' # debouncedValue => debouncedValue' = searchQuery'
         ]_vars

\* two inputs, then more than Delay ms without one: the debounced value is the
\* second input
C35_Witness ==
    /\ mounted
    /\ burst.len = 2
    /\ now > burst.lastAt + Delay
    /\ searchQuery # burst.before
    /\ debouncedValue = searchQuery
    /\ timers = {}

\* C36: the debounced value equals the initial input as soon as the hook is
\* created, and the expiry of the timer armed at creation, the input never
\* having changed, changes nothing: no term change, no page reset, no fetch
C36_InitialValueNotDebounced ==
    [][ /\ last'.kind = "mount" => debouncedValue' = searchQuery'
        /\ (last'.kind = "timer" /\ keys = 0)
            => /\ debouncedValue' = debouncedValue
               /\ page' = page
               /\ last'.dispatched = << >>
               /\ issued' = issued
               /\ loading' = loading
               /\ movies' = movies
      ]_vars

\* the timer armed at creation has expired at page 2, the input unchanged
C36_Witness ==
    /\ last.kind = "timer"
    /\ keys = 0
    /\ page = 2
    /\ debouncedValue = EmptyStr
    /\ timer = NoTimer

\* C37: a failed fetch does not move the page cursor: when the fetch for
\* (term, n) of the current term fails, page is n before and after, and the
\* step requests nothing (the next page is requested by the next scroll
\* advance, page n not again)
C37_FailureKeepsPage ==
    [][ (Settled(last') /\ last'.outcome = "threw" /\ last'.req.term = debouncedValue)
        => /\ page = last'.req.page
           /\ page' = page
           /\ last'.dispatched = << >>
      ]_vars

\* C38: the movie the detail view displays is the one fetched for the current
\* route id, and a response for another id than the current one does not
\* replace the displayed movie
C38_DetailConsistency ==
    [][ /\ (route' # 0 /\ movie' # NoMovie /\ ~movie'.error) => movie'.id = route'
        /\ (last'.kind = "detail" /\ last'.req.id # route') => movie' = movie
      ]_vars

====
